---- MODULE Spec2Model ----
(***************************************************************************)
(* Trip lifecycle and settlement core of the online-taxi backend.          *)
(*                                                                         *)
(* The persistent store is PostgreSQL at READ COMMITTED: every request     *)
(* runs on its own pooled connection, a SELECT sees what is committed when *)
(* it runs, and the writes of one database transaction become visible      *)
(* together at its commit.  One step of the model is therefore either one  *)
(* read statement or the writes of one database transaction with their     *)
(* commit.  Money is counted in hundredths of the currency unit.           *)
(***************************************************************************)
EXTENDS Integers, Sequences, FiniteSets, TLC

\* ---------------------------------------------------------------- bounds
MaxTrips == 1
MaxFleetTrips == 2
MaxTransactions == 4
MaxPayments == 2
UsageLimit == 1
MaxDistance == 200

\* ------------------------------------------------------------- constants
NULL == 0
\* Python None in a nullable numeric column whose value may also be 0
None == -1

Procs == {1, 2}
Passengers == {1}
Drivers == {2, 3}
Users == Passengers \cup Drivers
\* what TripCreate lets a caller of create_trip pass: any passenger id (4 is
\* the id of no user) and an optional driver_id
PassengerInputs == Passengers \cup {4}
DriverInputs == Drivers \cup {NULL}
DiscountIds == {1, 2}
DriverApprovalStatus == {"pending", "approved", "rejected"}
\* the codes a request may name: the existing ones and one that does not exist
DiscountInputs == DiscountIds \cup {3}
\* datetime.now() as seen by a validate call
Times == {1, 2, 3}
\* trip amounts passed to validate, whole currency units in hundredths
TripAmounts == {100, 300}
\* the rows validate is applied to: every combination of set and unset
\* columns, the type names of the service ("percentage", "fixed") and of
\* DiscountCodeType ("percent", "amount")
DiscountRows ==
    [deleted : BOOLEAN, is_active : BOOLEAN, valid_from : {None, 2},
     valid_until : {None, 2}, min_trip_amount : {None, 200},
     max_discount_amount : {None, 0, 20}, usage_limit : {None, 0, 1},
     usage_count : {0, 1},
     discount_type : {"percentage", "fixed", "percent", "amount"},
     discount_value : {10, 150}]

GrossAmounts == {100}
PostInputs == {[type |-> "deposit", amount |-> 100],
               [type |-> "withdraw", amount |-> -100],
               [type |-> "trip_payment", amount |-> -100],
               [type |-> "trip_payment", amount |-> 100]}

\* every input TransactionCreate accepts for one user: any type with a
\* non-zero amount of either sign
TransactionType == {"deposit", "withdraw", "trip_payment", "refund", "adjustment"}
TransactionInputs == [type : TransactionType, amount : {-100, 100}]

\* the statuses in which a trip occupies its driver (exclusivity rule)
ActiveStatuses == {"pending", "accepted", "in_progress", "waiting"}

VARIABLES trips, wallet_balance, approval_status, discount_codes,
          transactions, payments, deleted_at, pc, req, returned

vars == <<trips, wallet_balance, approval_status, discount_codes,
          transactions, payments, deleted_at, pc, req, returned>>

\* ------------------------------------------------------------ helpers
NoReq == [op |-> "none", trip_id |-> NULL, user_id |-> NULL, amount |-> 0,
          type |-> "none", passenger_id |-> NULL, driver_id |-> NULL,
          payment_id |-> NULL, discount_id |-> NULL, current_balance |-> 0,
          now |-> 0, discount_amount |-> 0, final_amount |-> 0,
          distance |-> 0, duration |-> 0, available_drivers |-> 0,
          result |-> "none"]

TripIds == 1 .. Len(trips)

RECURSIVE SumSeq(_, _)
SumSeq(s, n) == IF n = 0 THEN 0 ELSE s[n] + SumSeq(s, n - 1)

\* rows of the transactions table that belong to user u / reference payment p
LedgerSum(u) ==
    SumSeq([i \in 1 .. Len(transactions) |->
               IF transactions[i].user_id = u THEN transactions[i].amount ELSE 0],
           Len(transactions))

RowsOfPayment(p) == {i \in 1 .. Len(transactions) : transactions[i].payment_id = p}

Abs(x) == IF x < 0 THEN -x ELSE x

\* the driver is credited the gross amount, no platform fee withheld
DriverAmount_NoFee(amount) == amount

\* amount * Decimal("0.85")
DriverAmount(amount) == (amount * 85) \div 100

\* rows a request in flight may still insert (keeps the tables bounded)
PendingTransactions(p) ==
    CASE pc[p] \in {"post_write", "top_up_read", "top_up_write"} -> 1
      [] pc[p] \in {"settle_payment", "settle_debit_read", "settle_debit_write"} ->
             IF req[p].driver_id # NULL THEN 2 ELSE 1
      [] pc[p] \in {"settle_credit_read", "settle_credit_write"} -> 1
      [] OTHER -> 0

PendingPayments(p) == IF pc[p] = "settle_payment" THEN 1 ELSE 0

RECURSIVE SumProcs(_, _)
SumProcs(f, S) ==
    IF S = {} THEN 0
    ELSE LET q == CHOOSE x \in S : TRUE IN f[q] + SumProcs(f, S \ {q})

TransactionRoom(n) ==
    Len(transactions) + SumProcs([q \in Procs |-> PendingTransactions(q)], Procs) + n
        <= MaxTransactions
PaymentRoom(n) ==
    Len(payments) + SumProcs([q \in Procs |-> PendingPayments(q)], Procs) + n <= MaxPayments

\* the handler of request p returns: its locals are dropped and the caller
\* gets the outcome res
Finish(p, r, res) ==
    /\ pc' = [pc EXCEPT ![p] = "idle"]
    /\ req' = [req EXCEPT ![p] = NoReq]
    /\ returned' = [r EXCEPT !.result = res]

\* the handler of request p goes on to its next statement
Goto(p, r, label) ==
    /\ pc' = [pc EXCEPT ![p] = label]
    /\ req' = [req EXCEPT ![p] = r]
    /\ returned' = NoReq

\* a row of discount_codes: active, always valid, no minimum, no cap, 10 %
DefaultCode ==
    [deleted |-> FALSE, is_active |-> TRUE, valid_from |-> None,
     valid_until |-> None, min_trip_amount |-> None,
     max_discount_amount |-> None, usage_limit |-> UsageLimit,
     usage_count |-> 0, discount_type |-> "percentage", discount_value |-> 10]

\* ------------------------------------------------------------------ Init
Init ==
    /\ trips = << >>
    /\ wallet_balance = [u \in Users |-> 0]
    /\ approval_status = [d \in Drivers |-> "approved"]
    /\ discount_codes = [c \in DiscountIds |-> DefaultCode]
    /\ transactions = << >>
    /\ payments = << >>
    /\ deleted_at = [u \in Users |-> FALSE]
    /\ pc = [p \in Procs |-> "idle"]
    /\ req = [p \in Procs |-> NoReq]
    /\ returned = NoReq

\* ------------------------------------------------------- TripService
\* create_trip; at most max rows are created
CreateTrip(p, passenger, driver, discount, max) ==
    /\ pc[p] = "idle"
    /\ Len(trips) < max
    /\ LET r == [NoReq EXCEPT !.op = "create", !.user_id = passenger,
                              !.driver_id = driver, !.discount_id = discount]
       IN IF passenger \notin Users
          THEN /\ Finish(p, r, "404")
               /\ UNCHANGED trips
          ELSE /\ trips' = Append(trips,
                       [passenger_id |-> passenger, driver_id |-> driver,
                        discount_code_id |-> discount,
                        trip_status |-> "pending", start_time |-> NULL,
                        end_time |-> NULL, payment_id |-> NULL])
               /\ Finish(p, [r EXCEPT !.trip_id = Len(trips) + 1], "ok")
    /\ UNCHANGED <<deleted_at, wallet_balance, approval_status, discount_codes, transactions, payments>>

\* accept_trip going on to its UPDATE whatever the row's status and driver
AcceptRead_AnyStatus(p, t, d) ==
    /\ pc[p] = "idle"
    /\ LET r == [NoReq EXCEPT !.op = "accept", !.trip_id = t, !.driver_id = d]
       IN IF t \notin TripIds
          THEN Finish(p, r, "None")
          ELSE Goto(p, r, "accept_update")
    /\ UNCHANGED <<deleted_at, trips, wallet_balance, approval_status, discount_codes,
                   transactions, payments>>

\* accept_trip, first statement: SELECT id, trip_status, driver_id
AcceptRead(p, t, d) ==
    /\ pc[p] = "idle"
    /\ LET r == [NoReq EXCEPT !.op = "accept", !.trip_id = t, !.driver_id = d]
       IN IF t \notin TripIds
          THEN Finish(p, r, "None")
          ELSE IF trips[t].trip_status # "pending" \/ trips[t].driver_id # NULL
               THEN Finish(p, r, "None")
               ELSE Goto(p, r, "accept_update")
    /\ UNCHANGED <<deleted_at, trips, wallet_balance, approval_status, discount_codes,
                   transactions, payments>>

\* accept_trip, second statement: UPDATE ... WHERE id = %s, then commit
AcceptUpdate(p) ==
    /\ pc[p] = "accept_update"
    /\ LET t == req[p].trip_id
       IN /\ trips' = [trips EXCEPT ![t].driver_id = req[p].driver_id,
                                    ![t].trip_status = "accepted"]
          /\ Finish(p, req[p], "ok")
    /\ UNCHANGED <<deleted_at, wallet_balance, approval_status, discount_codes, transactions, payments>>

\* assign_driver_to_trip, the two SELECTs: driver approved, driver not busy
DriverBusy(d) ==
    \E t \in TripIds : /\ trips[t].driver_id = d
                       /\ trips[t].trip_status \in {"pending", "started", "waiting"}

AssignRead(p, t, d) ==
    /\ pc[p] = "idle"
    /\ LET r == [NoReq EXCEPT !.op = "assign", !.trip_id = t, !.driver_id = d]
       IN IF ~(d \in Drivers /\ approval_status[d] = "approved")
          THEN Finish(p, r, "400")
          ELSE IF DriverBusy(d)
               THEN Finish(p, r, "400")
               ELSE Goto(p, r, "assign_update")
    /\ UNCHANGED <<deleted_at, trips, wallet_balance, approval_status, discount_codes,
                   transactions, payments>>

\* assign_driver_to_trip, UPDATE ... WHERE id = %s AND trip_status = 'pending'
AssignUpdate(p) ==
    /\ pc[p] = "assign_update"
    /\ LET t == req[p].trip_id
       IN IF t \in TripIds /\ trips[t].trip_status = "pending"
          THEN /\ trips' = [trips EXCEPT ![t].driver_id = req[p].driver_id]
               /\ Finish(p, req[p], "True")
          ELSE /\ UNCHANGED trips
               /\ Finish(p, req[p], "False")
    /\ UNCHANGED <<deleted_at, wallet_balance, approval_status, discount_codes, transactions, payments>>

\* start_trip without the driver_id condition
StartTrip_AnyDriver(p, t, d) ==
    /\ pc[p] = "idle"
    /\ LET r == [NoReq EXCEPT !.op = "start", !.trip_id = t, !.driver_id = d]
       IN IF t \in TripIds /\ trips[t].trip_status = "accepted"
          THEN /\ trips' = [trips EXCEPT ![t].trip_status = "in_progress",
                                         ![t].start_time = 1]
               /\ Finish(p, r, "ok")
          ELSE /\ UNCHANGED trips
               /\ Finish(p, r, "None")
    /\ UNCHANGED <<deleted_at, wallet_balance, approval_status, discount_codes, transactions, payments>>

\* start_trip: one conditional UPDATE
StartTrip(p, t, d) ==
    /\ pc[p] = "idle"
    /\ LET r == [NoReq EXCEPT !.op = "start", !.trip_id = t, !.driver_id = d]
       IN IF t \in TripIds /\ trips[t].driver_id = d
                           /\ trips[t].trip_status = "accepted"
          THEN /\ trips' = [trips EXCEPT ![t].trip_status = "in_progress",
                                         ![t].start_time = 1]
               /\ Finish(p, r, "ok")
          ELSE /\ UNCHANGED trips
               /\ Finish(p, r, "None")
    /\ UNCHANGED <<deleted_at, wallet_balance, approval_status, discount_codes, transactions, payments>>

\* complete_trip without the trip_status condition
CompleteTrip_AnyStatus(p, t, d) ==
    /\ pc[p] = "idle"
    /\ LET r == [NoReq EXCEPT !.op = "complete", !.trip_id = t, !.driver_id = d]
       IN IF t \in TripIds /\ trips[t].driver_id = d
          THEN /\ trips' = [trips EXCEPT ![t].trip_status = "completed",
                                         ![t].end_time = 1]
               /\ Finish(p, r, "ok")
          ELSE /\ UNCHANGED trips
               /\ Finish(p, r, "None")
    /\ UNCHANGED <<deleted_at, wallet_balance, approval_status, discount_codes, transactions, payments>>

\* complete_trip telling a missing trip from a failed precondition
CompleteTrip_Typed(p, t, d) ==
    /\ pc[p] = "idle"
    /\ LET r == [NoReq EXCEPT !.op = "complete", !.trip_id = t, !.driver_id = d]
       IN IF t \in TripIds /\ trips[t].driver_id = d
                           /\ trips[t].trip_status = "in_progress"
          THEN /\ trips' = [trips EXCEPT ![t].trip_status = "completed",
                                         ![t].end_time = 1]
               /\ Finish(p, r, "ok")
          ELSE /\ UNCHANGED trips
               /\ Finish(p, r, IF t \in TripIds THEN "InvalidState" ELSE "None")
    /\ UNCHANGED <<deleted_at, wallet_balance, approval_status, discount_codes, transactions, payments>>

\* complete_trip: one conditional UPDATE
CompleteTrip(p, t, d) ==
    /\ pc[p] = "idle"
    /\ LET r == [NoReq EXCEPT !.op = "complete", !.trip_id = t, !.driver_id = d]
       IN IF t \in TripIds /\ trips[t].driver_id = d
                           /\ trips[t].trip_status = "in_progress"
          THEN /\ trips' = [trips EXCEPT ![t].trip_status = "completed",
                                         ![t].end_time = 1]
               /\ Finish(p, r, "ok")
          ELSE /\ UNCHANGED trips
               /\ Finish(p, r, "None")
    /\ UNCHANGED <<deleted_at, wallet_balance, approval_status, discount_codes, transactions, payments>>

\* cancel_trip without the driver_id condition
CancelTrip_AnyDriver(p, t, d) ==
    /\ pc[p] = "idle"
    /\ LET r == [NoReq EXCEPT !.op = "cancel", !.trip_id = t, !.driver_id = d]
       IN IF t \in TripIds /\ trips[t].trip_status \in {"accepted", "in_progress"}
          THEN /\ trips' = [trips EXCEPT ![t].trip_status = "cancelled"]
               /\ Finish(p, r, "ok")
          ELSE /\ UNCHANGED trips
               /\ Finish(p, r, "None")
    /\ UNCHANGED <<deleted_at, wallet_balance, approval_status, discount_codes, transactions, payments>>

\* cancel_trip charging the driver a cancellation fee
CancelTrip_Fee(p, t, d) ==
    /\ pc[p] = "idle"
    /\ LET r == [NoReq EXCEPT !.op = "cancel", !.trip_id = t, !.driver_id = d]
       IN IF t \in TripIds /\ trips[t].driver_id = d
                           /\ trips[t].trip_status \in {"accepted", "in_progress"}
          THEN /\ trips' = [trips EXCEPT ![t].trip_status = "cancelled"]
               /\ wallet_balance' = [wallet_balance EXCEPT ![d] = @ - 100]
               /\ Finish(p, r, "ok")
          ELSE /\ UNCHANGED <<trips, wallet_balance>>
               /\ Finish(p, r, "None")
    /\ UNCHANGED <<deleted_at, approval_status, discount_codes, transactions, payments>>

\* cancel_trip: one conditional UPDATE
CancelTrip(p, t, d) ==
    /\ pc[p] = "idle"
    /\ LET r == [NoReq EXCEPT !.op = "cancel", !.trip_id = t, !.driver_id = d]
       IN IF t \in TripIds /\ trips[t].driver_id = d
                           /\ trips[t].trip_status \in {"accepted", "in_progress"}
          THEN /\ trips' = [trips EXCEPT ![t].trip_status = "cancelled"]
               /\ Finish(p, r, "ok")
          ELSE /\ UNCHANGED trips
               /\ Finish(p, r, "None")
    /\ UNCHANGED <<deleted_at, wallet_balance, approval_status, discount_codes, transactions, payments>>

\* ------------------------------------------- driver approval and auth
\* admin update_driver_approval -> DriverService.update_driver:
\* UPDATE drivers SET approval_status = %s, db.commit()
UpdateDriver(p, d, status) ==
    /\ pc[p] = "idle"
    /\ approval_status' = [approval_status EXCEPT ![d] = status]
    /\ Finish(p, [NoReq EXCEPT !.op = "approval", !.driver_id = d], "ok")
    /\ UNCHANGED <<deleted_at, trips, wallet_balance, discount_codes, transactions, payments>>

\* the accept endpoint's dependency get_current_driver: the driver row is
\* read and must be approved, before the handler calls accept_trip
DriverAuth(p, t, d) ==
    /\ pc[p] = "idle"
    /\ LET r == [NoReq EXCEPT !.op = "accept", !.trip_id = t, !.driver_id = d]
       IN IF approval_status[d] # "approved"
          THEN Finish(p, r, "403")
          ELSE Goto(p, r, "accept_read")
    /\ UNCHANGED <<deleted_at, trips, wallet_balance, approval_status, discount_codes,
                   transactions, payments>>

\* accept_trip called by the endpoint: SELECT id, trip_status, driver_id
AcceptSelect(p) ==
    /\ pc[p] = "accept_read"
    /\ LET t == req[p].trip_id
       IN IF t \notin TripIds
          THEN Finish(p, req[p], "None")
          ELSE IF trips[t].trip_status # "pending" \/ trips[t].driver_id # NULL
               THEN Finish(p, req[p], "None")
               ELSE Goto(p, req[p], "accept_update")
    /\ UNCHANGED <<deleted_at, trips, wallet_balance, approval_status, discount_codes,
                   transactions, payments>>

\* ------------------------------------------------- driver endpoints
\* the closed TripStatus enumeration of the response schema
TripStatus == {"pending", "completed", "canceled", "started", "waiting", "failed"}

\* the status an operation of the driver endpoints writes
WrittenStatus(op) ==
    CASE op = "accept" -> "accepted"
      [] op = "start" -> "in_progress"
      [] op = "complete" -> "completed"
      [] op = "cancel" -> "cancelled"
      [] OTHER -> "none"

\* the HTTP status the endpoint answers for the outcome r of its service
\* call: None raises HTTPException(404), a trip row is passed through
\* TripResponse(**trip), whose trip_status must be in TripStatus
EndpointStatus(r) ==
    IF r.result = "None" THEN "404"
    ELSE IF r.result = "ok"
         THEN IF WrittenStatus(r.op) \in TripStatus THEN "200" ELSE "500"
         ELSE r.result

\* ------------------------------------------------ TransactionService
\* the balance test made for withdrawals only
InsufficientBalance_WithdrawOnly(type, current_balance, amount) ==
    type = "withdraw" /\ current_balance < Abs(amount)

\* create_transaction up to the balance check: SELECT wallet_balance, then
\* the insufficient-balance test on the value read
InsufficientBalance(type, current_balance, amount) ==
    type \in {"withdraw", "trip_payment"} /\ current_balance < Abs(amount)

\* a create_transaction that rewrites the newest row of the user's ledger
\* table instead of inserting one
LedgerWrite_Overwrite(user, amount, type, payment, current_balance) ==
    /\ transactions' =
          IF transactions = << >>
          THEN << [user_id |-> user, amount |-> amount, type |-> type,
                   payment_id |-> payment] >>
          ELSE [transactions EXCEPT ![Len(transactions)] =
                   [user_id |-> user, amount |-> amount, type |-> type,
                    payment_id |-> payment]]
    /\ wallet_balance' = [wallet_balance EXCEPT ![user] = current_balance + amount]

\* create_transaction from the INSERT to COMMIT: the row and the balance
\* computed from the value read earlier become visible together
LedgerWrite(user, amount, type, payment, current_balance) ==
    /\ transactions' = Append(transactions,
           [user_id |-> user, amount |-> amount, type |-> type,
            payment_id |-> payment])
    /\ wallet_balance' = [wallet_balance EXCEPT ![user] = current_balance + amount]

PostRead(p, u, in) ==
    /\ pc[p] = "idle"
    /\ TransactionRoom(1)
    /\ LET r == [NoReq EXCEPT !.op = "post", !.user_id = u, !.amount = in.amount,
                              !.type = in.type,
                              !.current_balance = wallet_balance[u]]
       IN IF InsufficientBalance(in.type, wallet_balance[u], in.amount)
          THEN Finish(p, r, "400")
          ELSE Goto(p, r, "post_write")
    /\ UNCHANGED <<deleted_at, trips, wallet_balance, approval_status, discount_codes,
                   transactions, payments>>

PostWrite(p) ==
    /\ pc[p] = "post_write"
    /\ LedgerWrite(req[p].user_id, req[p].amount, req[p].type, NULL,
                   req[p].current_balance)
    /\ Finish(p, req[p], "ok")
    /\ UNCHANGED <<deleted_at, trips, approval_status, discount_codes, payments>>

\* ------------------------------------------------------ top_up_wallet
\* PaymentService.create_payment: INSERT with status 'pending', db.commit()
TopUpPayment(p, u, amount) ==
    /\ pc[p] = "idle"
    /\ PaymentRoom(1)
    /\ TransactionRoom(1)
    /\ payments' = Append(payments, [amount |-> amount, status |-> "pending"])
    /\ Goto(p, [NoReq EXCEPT !.op = "top_up", !.user_id = u, !.amount = amount,
                             !.type = "deposit",
                             !.payment_id = Len(payments) + 1],
            "top_up_read")
    /\ UNCHANGED <<deleted_at, trips, wallet_balance, approval_status, discount_codes, transactions>>

\* create_transaction(user, amount, "deposit"): read and check; 404 when
\* the SELECT finds no user row
TopUpRead(p) ==
    /\ pc[p] = "top_up_read"
    /\ IF req[p].user_id \notin Users
       THEN Finish(p, req[p], "404")
       ELSE LET bal == wallet_balance[req[p].user_id]
                r == [req[p] EXCEPT !.current_balance = bal]
            IN IF InsufficientBalance("deposit", bal, req[p].amount)
               THEN Finish(p, r, "400")
               ELSE Goto(p, r, "top_up_write")
    /\ UNCHANGED <<deleted_at, trips, wallet_balance, approval_status, discount_codes,
                   transactions, payments>>

\* create_transaction(user, ...): INSERT, UPDATE users, COMMIT
TopUpWrite(p) ==
    /\ pc[p] = "top_up_write"
    /\ LedgerWrite(req[p].user_id, req[p].amount, "deposit", req[p].payment_id,
                   req[p].current_balance)
    /\ Goto(p, req[p], "top_up_finish")
    /\ UNCHANGED <<deleted_at, trips, approval_status, discount_codes, payments>>

\* update_payment_status(payment, "completed") with its db.commit()
TopUpFinish(p) ==
    /\ pc[p] = "top_up_finish"
    /\ payments' = [payments EXCEPT ![req[p].payment_id].status = "completed"]
    /\ Finish(p, req[p], "ok")
    /\ UNCHANGED <<deleted_at, trips, wallet_balance, approval_status, discount_codes, transactions>>

\* ---------------------------------------------- process_trip_payment
\* SELECT passenger_id, driver_id FROM trips WHERE id = %s
SettleBegin(p, t, amount) ==
    /\ pc[p] = "idle"
    /\ PaymentRoom(1)
    /\ TransactionRoom(2)
    /\ LET r == [NoReq EXCEPT !.op = "settle", !.trip_id = t, !.amount = amount]
       IN IF t \notin TripIds
          THEN Finish(p, r, "404")
          ELSE Goto(p, [r EXCEPT !.passenger_id = trips[t].passenger_id,
                                 !.driver_id = trips[t].driver_id],
                    "settle_payment")
    /\ UNCHANGED <<deleted_at, trips, wallet_balance, approval_status, discount_codes,
                   transactions, payments>>

\* PaymentService.create_payment: INSERT with status 'pending', db.commit()
SettlePayment(p) ==
    /\ pc[p] = "settle_payment"
    /\ payments' = Append(payments, [amount |-> req[p].amount, status |-> "pending"])
    /\ Goto(p, [req[p] EXCEPT !.payment_id = Len(payments) + 1],
            "settle_debit_read")
    /\ UNCHANGED <<deleted_at, trips, wallet_balance, approval_status, discount_codes, transactions>>

\* create_transaction(passenger, -amount, "trip_payment"): read and check
SettleDebitRead(p) ==
    /\ pc[p] = "settle_debit_read"
    /\ LET bal == wallet_balance[req[p].passenger_id]
           r == [req[p] EXCEPT !.current_balance = bal]
       IN IF InsufficientBalance("trip_payment", bal, -req[p].amount)
          THEN Finish(p, r, "400")
          ELSE Goto(p, r, "settle_debit_write")
    /\ UNCHANGED <<deleted_at, trips, wallet_balance, approval_status, discount_codes,
                   transactions, payments>>

\* create_transaction(passenger, ...): INSERT, UPDATE users, COMMIT
SettleDebitWrite(p) ==
    /\ pc[p] = "settle_debit_write"
    /\ LedgerWrite(req[p].passenger_id, -req[p].amount, "trip_payment",
                   req[p].payment_id, req[p].current_balance)
    /\ Goto(p, req[p], IF req[p].driver_id # NULL
                        THEN "settle_credit_read" ELSE "settle_finish")
    /\ UNCHANGED <<deleted_at, trips, approval_status, discount_codes, payments>>

\* create_transaction(driver, amount * 0.85, "trip_payment"): read and check
SettleCreditRead(p) ==
    /\ pc[p] = "settle_credit_read"
    /\ LET bal == wallet_balance[req[p].driver_id]
           r == [req[p] EXCEPT !.current_balance = bal]
       IN IF InsufficientBalance("trip_payment", bal, DriverAmount(req[p].amount))
          THEN Finish(p, r, "400")
          ELSE Goto(p, r, "settle_credit_write")
    /\ UNCHANGED <<deleted_at, trips, wallet_balance, approval_status, discount_codes,
                   transactions, payments>>

\* create_transaction(driver, ...): INSERT, UPDATE users, COMMIT
SettleCreditWrite(p) ==
    /\ pc[p] = "settle_credit_write"
    /\ LedgerWrite(req[p].driver_id, DriverAmount(req[p].amount), "trip_payment",
                   req[p].payment_id, req[p].current_balance)
    /\ Goto(p, req[p], "settle_finish")
    /\ UNCHANGED <<deleted_at, trips, approval_status, discount_codes, payments>>

\* UPDATE trips SET payment_id; update_payment_status(..., "completed") with
\* its db.commit(), which commits both statements
SettleFinish(p) ==
    /\ pc[p] = "settle_finish"
    /\ trips' = [trips EXCEPT ![req[p].trip_id].payment_id = req[p].payment_id]
    /\ payments' = [payments EXCEPT ![req[p].payment_id].status = "completed"]
    /\ Finish(p, req[p], "ok")
    /\ UNCHANGED <<deleted_at, wallet_balance, approval_status, discount_codes, transactions>>

\* ---------------------------------------------------- DiscountService
\* Python truthiness of a nullable number: None and 0 are both false
Truthy(x) == x # None /\ x # 0

Min(a, b) == IF a < b THEN a ELSE b
Max(a, b) == IF a > b THEN a ELSE b

\* the trips the "already used" test counts
TripsWithCode(u, c) ==
    {t \in TripIds : trips[t].passenger_id = u /\ trips[t].discount_code_id = c}

\* validate_discount_code up to its last test: the error, or "valid"
ValidateOutcome(c, trip_amount, u, now) ==
    IF c \notin DOMAIN discount_codes \/ discount_codes[c].deleted
    THEN "Discount code not found"
    ELSE LET d == discount_codes[c]
         IN IF ~d.is_active THEN "Discount code is not active"
            ELSE IF d.valid_from # None /\ now < d.valid_from
                 THEN "Discount code is not yet valid"
            ELSE IF d.valid_until # None /\ now > d.valid_until
                 THEN "Discount code has expired"
            ELSE IF Truthy(d.min_trip_amount) /\ trip_amount < d.min_trip_amount
                 THEN "Minimum trip amount"
            ELSE IF Truthy(d.usage_limit) /\ d.usage_count >= d.usage_limit
                 THEN "Discount code usage limit reached"
            ELSE IF TripsWithCode(u, c) # {}
                 THEN "You have already used this discount code"
            ELSE "valid"

\* the discount of row d on trip_amount; trip amounts are whole currency
\* units, so the percentage is exact in hundredths
DiscountAmount(d, trip_amount) ==
    LET raw == IF d.discount_type = "percentage"
               THEN (trip_amount * d.discount_value) \div 100
               ELSE IF d.discount_type = "fixed" THEN d.discount_value ELSE 0
    IN IF Truthy(d.max_discount_amount) THEN Min(raw, d.max_discount_amount)
       ELSE raw

\* validate_discount_code counting the use itself when it accepts
ValidateDiscount_Counting(p, c, trip_amount, u, now, apply) ==
    /\ pc[p] = "idle"
    /\ LET r == [NoReq EXCEPT !.op = "validate", !.discount_id = c,
                              !.amount = trip_amount, !.user_id = u, !.now = now]
           out == ValidateOutcome(c, trip_amount, u, now)
       IN IF out # "valid"
          THEN /\ Finish(p, r, out)
               /\ UNCHANGED discount_codes
          ELSE /\ discount_codes' = [discount_codes EXCEPT ![c].usage_count = @ + 1]
               /\ IF apply THEN Goto(p, r, "increment_usage")
                  ELSE Finish(p, r, "valid")
    /\ UNCHANGED <<deleted_at, trips, wallet_balance, approval_status, transactions, payments>>

\* validate_discount_code; a caller that applies the code (apply) goes on to
\* increment_usage_count after a valid answer
ValidateDiscount(p, c, trip_amount, u, now, apply) ==
    /\ pc[p] = "idle"
    /\ LET r == [NoReq EXCEPT !.op = "validate", !.discount_id = c,
                              !.amount = trip_amount, !.user_id = u, !.now = now]
           out == ValidateOutcome(c, trip_amount, u, now)
       IN IF out # "valid"
          THEN Finish(p, r, out)
          ELSE LET amt == DiscountAmount(discount_codes[c], trip_amount)
                   v == [r EXCEPT !.discount_amount = amt,
                                  !.final_amount = Max(0, trip_amount - amt)]
               IN IF apply THEN Goto(p, v, "increment_usage")
                  ELSE Finish(p, v, "valid")
    /\ UNCHANGED <<deleted_at, trips, wallet_balance, approval_status, discount_codes,
                   transactions, payments>>

\* increment_usage_count: UPDATE ... SET usage_count = usage_count + 1
IncrementUsage(p) ==
    /\ pc[p] = "increment_usage"
    /\ discount_codes' = [discount_codes EXCEPT
           ![req[p].discount_id].usage_count = @ + 1]
    /\ Finish(p, [req[p] EXCEPT !.op = "increment"], "True")
    /\ UNCHANGED <<deleted_at, trips, wallet_balance, approval_status, transactions, payments>>

\* ------------------------------------------------- soft-deleted users
\* delete_user: UPDATE users SET deleted_at = now WHERE id = %s AND
\* deleted_at IS NULL, db.commit(), returns rowcount > 0
DeleteUser(p, u) ==
    /\ pc[p] = "idle"
    /\ deleted_at' = [deleted_at EXCEPT ![u] = TRUE]
    /\ Finish(p, [NoReq EXCEPT !.op = "delete_user", !.user_id = u],
              IF deleted_at[u] THEN "False" ELSE "True")
    /\ UNCHANGED <<trips, wallet_balance, approval_status, discount_codes,
                   transactions, payments>>

\* get_wallet_balance: SELECT wallet_balance FROM users WHERE id = %s AND
\* deleted_at IS NULL; None when no row is found
GetWalletBalance(p, u) ==
    /\ pc[p] = "idle"
    /\ Finish(p, [NoReq EXCEPT !.op = "balance_of", !.user_id = u,
                               !.current_balance =
                                   IF deleted_at[u] THEN 0 ELSE wallet_balance[u]],
              IF deleted_at[u] THEN "None" ELSE "ok")
    /\ UNCHANGED <<deleted_at, trips, wallet_balance, approval_status,
                   discount_codes, transactions, payments>>

\* ------------------------------------------------- estimate_trip
\* round(distance_km * 2) as Python rounds a Decimal: to the nearest
\* integer, a tie to the even one; distance in hundredths of a kilometre
EstimatedDuration_Round(distance) ==
    LET q == (distance * 2) \div 100
        r == (distance * 2) % 100
    IN  IF r > 50 \/ (r = 50 /\ q % 2 = 1) THEN q + 1 ELSE q

\* estimated_duration = int(distance_km * 2); _calculate_distance returns
\* the distance rounded to two decimals, here in hundredths of a kilometre
EstimatedDuration(distance) == (distance * 2) \div 100

\* SELECT COUNT(*) FROM drivers d WHERE d.approval_status = 'approved' AND
\* d.user_id NOT IN (SELECT driver_id FROM trips WHERE trip_status IN
\* ('pending', 'started', 'waiting') AND driver_id IS NOT NULL)
AvailableDrivers ==
    Cardinality({d \in Drivers : /\ approval_status[d] = "approved"
                                 /\ ~DriverBusy(d)})

\* estimate_trip: reads only, returns the duration and the driver count
EstimateTrip(p, distance) ==
    /\ pc[p] = "idle"
    /\ Finish(p, [NoReq EXCEPT !.op = "estimate", !.distance = distance,
                               !.duration = EstimatedDuration(distance),
                               !.available_drivers = AvailableDrivers], "ok")
    /\ UNCHANGED <<deleted_at, trips, wallet_balance, approval_status, discount_codes,
                   transactions, payments>>

\* ------------------------------------------------- specifications
\* the trip lifecycle: the requests of the passenger and driver endpoints
\* and assign_driver_to_trip, over at most max trips
TripRequest(p, max) ==
    \/ \E u \in Passengers : CreateTrip(p, u, NULL, NULL, max)
    \/ \E t \in 1 .. max, d \in Drivers :
          \/ AcceptRead(p, t, d)
          \/ AssignRead(p, t, d)
          \/ StartTrip(p, t, d)
          \/ CompleteTrip(p, t, d)
          \/ CancelTrip(p, t, d)
    \/ AcceptUpdate(p)
    \/ AssignUpdate(p)

NextTrip == \E p \in Procs : TripRequest(p, MaxTrips)
SpecTrip == Init /\ [][NextTrip]_vars

NextFleet == \E p \in Procs : TripRequest(p, MaxFleetTrips)
SpecFleet == Init /\ [][NextFleet]_vars

\* the wallet ledger: concurrent create_transaction calls
NextLedger ==
    \E p \in Procs :
        \/ \E u \in Users, in \in PostInputs : PostRead(p, u, in)
        \/ PostWrite(p)
SpecLedger == Init /\ [][NextLedger]_vars

\* settlement: one driver takes a trip to completion, wallets are funded by
\* deposits, process_trip_payment is called on the trip
SettleRequest(p) ==
    \/ \E t \in 1 .. MaxTrips, g \in GrossAmounts : SettleBegin(p, t, g)
    \/ SettlePayment(p)
    \/ SettleDebitRead(p)
    \/ SettleDebitWrite(p)
    \/ SettleCreditRead(p)
    \/ SettleCreditWrite(p)
    \/ SettleFinish(p)

NextSettle ==
    \E p \in Procs :
        \/ \E u \in Passengers : CreateTrip(p, u, NULL, NULL, MaxTrips)
        \/ \E t \in 1 .. MaxTrips : AcceptRead(p, t, 2)
        \/ AcceptUpdate(p)
        \/ \E u \in {1, 2} : PostRead(p, u, [type |-> "deposit", amount |-> 100])
        \/ PostWrite(p)
        \/ SettleRequest(p)
SpecSettle == Init /\ [][NextSettle]_vars

NextComplete ==
    \E p \in Procs :
        \/ \E u \in Passengers : CreateTrip(p, u, NULL, NULL, MaxTrips)
        \/ \E t \in 1 .. MaxTrips :
              \/ AcceptRead(p, t, 2)
              \/ StartTrip(p, t, 2)
              \/ CompleteTrip(p, t, 2)
        \/ AcceptUpdate(p)
        \/ \E u \in {1, 2} : PostRead(p, u, [type |-> "deposit", amount |-> 100])
        \/ PostWrite(p)
        \/ SettleRequest(p)
SpecComplete == Init /\ [][NextComplete]_vars

\* cancellation next to money: one driver accepts and starts trips, either
\* driver cancels, the passenger tops up their wallet
TopUpRequest(p) ==
    \/ \E u \in Passengers, g \in GrossAmounts : TopUpPayment(p, u, g)
    \/ TopUpRead(p)
    \/ TopUpWrite(p)
    \/ TopUpFinish(p)

NextCancel ==
    \E p \in Procs :
        \/ \E u \in Passengers : CreateTrip(p, u, NULL, NULL, MaxTrips)
        \/ \E t \in 1 .. MaxTrips :
              \/ AcceptRead(p, t, 2)
              \/ StartTrip(p, t, 2)
              \/ \E d \in Drivers : CancelTrip(p, t, d)
        \/ AcceptUpdate(p)
        \/ TopUpRequest(p)
SpecCancel == Init /\ [][NextCancel]_vars

\* driver approval: the admin changes approval_status while drivers accept
\* through the endpoint and assign_driver_to_trip runs
NextApproval ==
    \E p \in Procs :
        \/ \E u \in Passengers : CreateTrip(p, u, NULL, NULL, MaxTrips)
        \/ \E t \in 1 .. MaxTrips, d \in Drivers :
              \/ DriverAuth(p, t, d)
              \/ AssignRead(p, t, d)
        \/ AcceptSelect(p)
        \/ AcceptUpdate(p)
        \/ AssignUpdate(p)
        \/ \E d \in Drivers, st \in DriverApprovalStatus : UpdateDriver(p, d, st)
SpecApproval == Init /\ [][NextApproval]_vars

\* create_trip called with every input TripCreate accepts, followed by the
\* trip lifecycle
NextCreate ==
    \E p \in Procs :
        \/ \E u \in PassengerInputs, d \in DriverInputs : CreateTrip(p, u, d, NULL, MaxTrips)
        \/ TripRequest(p, MaxTrips)
SpecCreate == Init /\ [][NextCreate]_vars

\* discount redemption: validate_discount_code followed by
\* increment_usage_count, by concurrent requests
NextDiscount ==
    \E p \in Procs :
        \/ \E c \in DiscountInputs, u \in Passengers, g \in GrossAmounts,
              apply \in BOOLEAN : ValidateDiscount(p, c, g, u, 1, apply)
        \/ IncrementUsage(p)
        \/ \E u \in Passengers, c \in DiscountIds : CreateTrip(p, u, NULL, c, MaxTrips)
SpecDiscount == Init /\ [][NextDiscount]_vars


\* trips that carry a discount code: validate_discount_code and create_trip
\* by the passenger, the driver taking the trips to completion
NextCoupon ==
    \E p \in Procs :
        \/ \E c \in DiscountInputs, u \in Passengers, g \in GrossAmounts :
              ValidateDiscount(p, c, g, u, 1, FALSE)
        \/ \E u \in Passengers, c \in DiscountIds \cup {NULL} :
              CreateTrip(p, u, NULL, c, MaxFleetTrips)
        \/ \E t \in 1 .. MaxFleetTrips :
              \/ AcceptRead(p, t, 2)
              \/ StartTrip(p, t, 2)
              \/ CompleteTrip(p, t, 2)
        \/ AcceptUpdate(p)
SpecCoupon == Init /\ [][NextCoupon]_vars

\* validate_discount_code as a function of the row it reads, the trip
\* amount, the user's trips and the time: code 1 is any row of DiscountRows,
\* the user has or has not a trip carrying it
InitValidate ==
    /\ \E row \in DiscountRows :
          discount_codes = [c \in DiscountIds |-> IF c = 1 THEN row ELSE DefaultCode]
    /\ \E c \in {NULL, 1} :
          trips = IF c = NULL THEN << >>
                  ELSE <<[passenger_id |-> 1, driver_id |-> NULL,
                          discount_code_id |-> c, trip_status |-> "pending",
                          start_time |-> NULL, end_time |-> NULL,
                          payment_id |-> NULL]>>
    /\ wallet_balance = [u \in Users |-> 0]
    /\ approval_status = [d \in Drivers |-> "approved"]
    /\ transactions = << >>
    /\ payments = << >>
    /\ deleted_at = [u \in Users |-> FALSE]
    /\ pc = [p \in Procs |-> "idle"]
    /\ req = [p \in Procs |-> NoReq]
    /\ returned = NoReq

NextValidate ==
    \E p \in Procs, c \in DiscountInputs, g \in TripAmounts, u \in Passengers,
       now \in Times : ValidateDiscount(p, c, g, u, now, FALSE)
SpecValidate == InitValidate /\ [][NextValidate]_vars

\* the wallet next to the trips: deposits are posted on the passenger and on
\* driver 2, the passenger tops up, trips are created for driver 2 and
\* cancelled, and process_trip_payment settles them
NextWallet ==
    \E p \in Procs :
        \/ \E u \in Passengers : CreateTrip(p, u, 2, NULL, MaxTrips)
        \/ \E t \in 1 .. MaxTrips : CancelTrip(p, t, 2)
        \/ \E u \in {1, 2}, in \in {i \in PostInputs : i.type = "deposit"} :
              PostRead(p, u, in)
        \/ PostWrite(p)
        \/ TopUpRequest(p)
        \/ SettleRequest(p)
SpecWallet == Init /\ [][NextWallet]_vars

\* users are soft-deleted while their balance is read, transactions are
\* posted on them and trips are created for them
NextDeleted ==
    \E p \in Procs, u \in Passengers :
        \/ DeleteUser(p, u)
        \/ GetWalletBalance(p, u)
        \/ \E in \in PostInputs : PostRead(p, u, in)
        \/ PostWrite(p)
        \/ CreateTrip(p, u, NULL, NULL, MaxTrips)
SpecDeleted == Init /\ [][NextDeleted]_vars

\* create_transaction called with every input TransactionCreate accepts
NextPost ==
    \E p \in Procs :
        \/ \E u \in Passengers, in \in TransactionInputs : PostRead(p, u, in)
        \/ PostWrite(p)
SpecPost == Init /\ [][NextPost]_vars

\* money in flight: users 1 and 2 deposit and top up, user 1 or user 2
\* rides with driver 2 (a driver is a user and may ride as a passenger),
\* process_trip_payment settles the trips
NextMoney ==
    \E p \in Procs :
        \/ \E u \in {1, 2} :
              \/ CreateTrip(p, u, 2, NULL, MaxTrips)
              \/ PostRead(p, u, [type |-> "deposit", amount |-> 100])
              \/ \E g \in GrossAmounts : TopUpPayment(p, u, g)
        \/ PostWrite(p)
        \/ TopUpRead(p)
        \/ TopUpWrite(p)
        \/ TopUpFinish(p)
        \/ SettleRequest(p)
SpecMoney == Init /\ [][NextMoney]_vars

\* top_up_wallet called for an existing user and for a user id that has
\* no row
NextTopUp ==
    \E p \in Procs :
        \/ \E u \in PassengerInputs, g \in GrossAmounts : TopUpPayment(p, u, g)
        \/ TopUpRead(p)
        \/ TopUpWrite(p)
        \/ TopUpFinish(p)
SpecTopUp == Init /\ [][NextTopUp]_vars

\* estimates taken while trips are created, accepted, assigned, started,
\* completed and cancelled
EstimateDistances == {75}
NextEstimate ==
    \E p \in Procs : \/ TripRequest(p, MaxTrips)
                     \/ \E distance \in EstimateDistances : EstimateTrip(p, distance)
SpecEstimate == Init /\ [][NextEstimate]_vars

\* estimates alone, over every distance of the range
Distances == 0 .. MaxDistance
NextDuration == \E p \in Procs, distance \in Distances : EstimateTrip(p, distance)
SpecDuration == Init /\ [][NextDuration]_vars

\* ------------------------------------------------------------ properties
\* the settle calls that are in flight or have just returned
SettleCalls == {r \in {req[p] : p \in Procs} \cup {returned} : r.op = "settle"}

HasDebit(r) ==
    \E i \in RowsOfPayment(r.payment_id) :
        /\ transactions[i].user_id = r.passenger_id
        /\ transactions[i].type = "trip_payment"
        /\ transactions[i].amount < 0

HasCredit(r) ==
    \E i \in RowsOfPayment(r.payment_id) :
        /\ transactions[i].user_id = r.driver_id
        /\ transactions[i].type = "trip_payment"
        /\ transactions[i].amount > 0

\* C1: of two accept calls by different drivers racing for one pending,
\* driverless trip exactly one returns success and the trip keeps that
\* driver: a call returns success only if no other driver's accept has
\* already succeeded on the trip when its write is applied.
C1_ExactlyOneAcceptSucceeds ==
    [][\A p \in Procs :
          (pc[p] = "accept_update" /\ pc'[p] = "idle" /\ returned'.result = "ok")
              => \/ trips[req[p].trip_id].driver_id = NULL
                 \/ trips[req[p].trip_id].driver_id = req[p].driver_id]_vars

\* C2: every driver is the driver_id of at most one trip whose status is
\* pending, accepted, in_progress or waiting.
C2_OneActiveTripPerDriver ==
    \A d \in Drivers :
        Cardinality({t \in TripIds : /\ trips[t].driver_id = d
                                     /\ trips[t].trip_status \in ActiveStatuses}) <= 1

\* C3: in every committed state the cached wallet_balance of each user equals
\* the sum of the amounts of the user's committed transaction rows.
C3_BalanceEqualsLedger ==
    \A u \in Users : wallet_balance[u] = LedgerSum(u)

\* C4: a process_trip_payment call that fails leaves nothing behind: the
\* payment row it created does not remain (so none stays pending) and no
\* transaction row references it.
C4_FailedSettleLeavesNothing ==
    (returned.op = "settle" /\ returned.result # "ok" /\ returned.payment_id # NULL)
        => /\ returned.payment_id \notin DOMAIN payments
           /\ RowsOfPayment(returned.payment_id) = {}

\* C5: for a settlement of a trip that has a driver, no committed state holds
\* the passenger's debit for the payment without the driver's credit for it.
C5_NoPartialTransfer ==
    \A r \in SettleCalls :
        (r.driver_id # NULL /\ r.payment_id # NULL /\ HasDebit(r)) => HasCredit(r)

\* C6: a trip whose status is completed has payment_id set to a completed
\* payment, with the passenger debited the gross fare and the driver credited
\* 0.85 x gross for that payment.
C6_CompletedMeansSettled ==
    \A t \in TripIds :
        trips[t].trip_status = "completed" =>
            /\ trips[t].payment_id # NULL
            /\ payments[trips[t].payment_id].status = "completed"
            /\ \E i \in RowsOfPayment(trips[t].payment_id) :
                  /\ transactions[i].user_id = trips[t].passenger_id
                  /\ transactions[i].amount = -payments[trips[t].payment_id].amount
            /\ \E i \in RowsOfPayment(trips[t].payment_id) :
                  /\ transactions[i].user_id = trips[t].driver_id
                  /\ transactions[i].amount * 100 =
                         85 * payments[trips[t].payment_id].amount

StatusEdges ==
    {<<"pending", "accepted">>, <<"accepted", "in_progress">>,
     <<"in_progress", "completed">>, <<"accepted", "cancelled">>,
     <<"in_progress", "cancelled">>}

C8_StatusFollowsEdges ==
    [][\A t \in TripIds :
          \/ trips'[t].trip_status = trips[t].trip_status
          \/ <<trips[t].trip_status, trips'[t].trip_status>> \in StatusEdges]_vars

\* C9: once a trip's driver_id is non-null it never changes again.
C9_DriverSetOnce ==
    [][\A t \in TripIds :
          trips[t].driver_id # NULL => trips'[t].driver_id = trips[t].driver_id]_vars

\* C10: a trip's payment_id is non-null only when the trip is completed, and
\* once non-null it is never overwritten.
C10_PaymentSetOnceOnCompletion ==
    [][\A t \in TripIds :
          /\ trips'[t].payment_id # NULL => trips'[t].trip_status = "completed"
          /\ trips[t].payment_id # NULL => trips'[t].payment_id = trips[t].payment_id]_vars

\* C11: of several process_trip_payment calls for one trip at most one takes
\* effect: no two calls for the same trip, each with its own payment, have
\* both debited the passenger.
C11_OneSettlementPerTrip ==
    \A r1, r2 \in SettleCalls :
        (/\ r1.trip_id = r2.trip_id
         /\ r1.payment_id # NULL
         /\ r2.payment_id # NULL
         /\ r1.payment_id # r2.payment_id)
            => ~(HasDebit(r1) /\ HasDebit(r2))

\* C12: a create_transaction call of type withdraw or trip_payment whose
\* negative amount exceeds the balance it reads is refused with 400
\* "Insufficient wallet balance": it never goes on to its INSERT, and the
\* refused call leaves the transactions table and every wallet balance as
\* they were.
C12_InsufficientFundsRefused ==
    [][/\ (returned'.op = "post" /\ returned'.result = "400")
             => /\ transactions' = transactions
                /\ wallet_balance' = wallet_balance
       /\ \A p \in Procs :
             (pc[p] = "idle" /\ pc'[p] = "post_write")
                 => ~(/\ req'[p].type \in {"withdraw", "trip_payment"}
                      /\ req'[p].amount < 0
                      /\ wallet_balance[req'[p].user_id] < Abs(req'[p].amount))]_vars

C12_Witness ==
    /\ returned.op = "post"
    /\ returned.result = "400"
    /\ returned.amount < 0
    /\ wallet_balance[returned.user_id] < Abs(returned.amount)
    /\ \E i \in 1 .. Len(transactions) : transactions[i].user_id = returned.user_id

\* C13: the insufficient-balance refusal applies to debits only: a
\* create_transaction call of type trip_payment with a positive amount is
\* never refused with 400, whatever the balance of the recipient.
C13_CreditNeverRefused ==
    [][(returned'.op = "post" /\ returned'.type = "trip_payment"
                              /\ returned'.amount > 0)
          => returned'.result # "400"]_vars

\* C14: the usage_count of a discount code that has a usage_limit never
\* exceeds the limit, whatever the interleaving of the validate-then-increment
\* applications of the code.
C14_UsageWithinLimit ==
    \A c \in DOMAIN discount_codes :
        discount_codes[c].usage_limit # None
            => discount_codes[c].usage_count <= discount_codes[c].usage_limit

C16_StartOnlyByAssignedDriver ==
    [][returned'.op = "start" =>
          LET t == returned'.trip_id
              d == returned'.driver_id
          IN IF t \in TripIds /\ trips[t].driver_id = d
                              /\ trips[t].trip_status = "accepted"
             THEN /\ returned'.result = "ok"
                  /\ trips'[t].trip_status = "in_progress"
                  /\ trips'[t].start_time # NULL
                  /\ trips' = [trips EXCEPT ![t].trip_status = "in_progress",
                                           ![t].start_time = trips'[t].start_time]
             ELSE /\ returned'.result = "None"
                  /\ trips' = trips]_vars

C16_Witness ==
    /\ returned.op = "start"
    /\ returned.result = "None"
    /\ returned.trip_id \in TripIds
    /\ trips[returned.trip_id].trip_status = "in_progress"
    /\ trips[returned.trip_id].driver_id = returned.driver_id
    /\ trips[returned.trip_id].start_time # NULL

\* C17: for every input its interface accepts, create_trip either appends one
\* trip whose status is pending and whose driver_id and payment_id are null,
\* or, when the passenger does not exist, fails with 404 and creates no row.
C17_CreateMakesPendingDriverless ==
    [][returned'.op = "create" =>
          IF returned'.user_id \in Users
          THEN /\ returned'.result = "ok"
               /\ Len(trips') = Len(trips) + 1
               /\ trips'[Len(trips')].passenger_id = returned'.user_id
               /\ trips'[Len(trips')].trip_status = "pending"
               /\ trips'[Len(trips')].driver_id = NULL
               /\ trips'[Len(trips')].payment_id = NULL
          ELSE /\ returned'.result = "404"
               /\ trips' = trips]_vars

\* C18: cancel_trip moves a trip to cancelled only from accepted or
\* in_progress, and moves no money: every wallet balance, the transactions
\* table and the payments table are the same after a cancel call as before
\* it, whether the call succeeds or returns None.
C18_CancelMovesNoMoney ==
    [][/\ returned'.op = "cancel"
             => /\ wallet_balance' = wallet_balance
                /\ transactions' = transactions
                /\ payments' = payments
                /\ (returned'.result # "ok" => trips' = trips)
       /\ \A t \in TripIds :
             (trips'[t].trip_status = "cancelled" /\ trips[t].trip_status # "cancelled")
                 => /\ trips[t].trip_status \in {"accepted", "in_progress"}
                    /\ returned'.op = "cancel"
                    /\ returned'.result = "ok"]_vars

C18_Witness ==
    /\ returned.op = "cancel"
    /\ returned.result = "ok"
    /\ trips[returned.trip_id].trip_status = "cancelled"
    /\ trips[returned.trip_id].start_time # NULL
    /\ wallet_balance[trips[returned.trip_id].passenger_id] > 0
    /\ Len(transactions) > 0
    /\ Len(payments) > 0

\* the operations of the driver endpoints
DriverOps == {"accept", "start", "complete", "cancel"}

C20_AssignedOnlyIfApproved ==
    [][\A p \in Procs :
          (/\ pc[p] \in {"accept_update", "assign_update"}
           /\ pc'[p] = "idle"
           /\ returned'.result \in {"ok", "True"})
              => approval_status[req[p].driver_id] = "approved"]_vars

\* C21: for every user u and discount code c at most one trip has passenger
\* u and discount code c, after any sequence of validate and create calls.
C21_OneTripPerUserAndCode ==
    \A u \in Users, c \in DiscountIds : Cardinality(TripsWithCode(u, c)) <= 1

\* C24: the usage_count of a discount code equals the number of trips that
\* carry the code and have reached completed: it is incremented once for each
\* such trip and for nothing else.
C24_UsageCountsCompletedTrips ==
    \A c \in DOMAIN discount_codes :
        discount_codes[c].usage_count =
            Cardinality({t \in TripIds : /\ trips[t].discount_code_id = c
                                         /\ trips[t].trip_status = "completed"})

\* the outcome C22 describes: the rejection reason of the first rule that
\* fails, a rule on a nullable column applying whenever the column is set
ClaimedOutcome(c, trip_amount, u, now) ==
    IF c \notin DOMAIN discount_codes \/ discount_codes[c].deleted
    THEN "Discount code not found"
    ELSE LET d == discount_codes[c]
         IN IF ~d.is_active THEN "Discount code is not active"
            ELSE IF d.valid_from # None /\ now < d.valid_from
                 THEN "Discount code is not yet valid"
            ELSE IF d.valid_until # None /\ now > d.valid_until
                 THEN "Discount code has expired"
            ELSE IF d.min_trip_amount # None /\ trip_amount < d.min_trip_amount
                 THEN "Minimum trip amount"
            ELSE IF d.usage_limit # None /\ d.usage_count >= d.usage_limit
                 THEN "Discount code usage limit reached"
            ELSE IF TripsWithCode(u, c) # {}
                 THEN "You have already used this discount code"
            ELSE "valid"

\* C22: validate accepts if and only if the code exists, is not soft-deleted,
\* is active, the time is inside the validity window, the trip amount reaches
\* min_trip_amount when set, usage_count is below usage_limit when a limit is
\* set (a limit of 0 included) and the user has no trip with the code;
\* otherwise it answers the reason of the first failing rule.
C22_ValidateRules ==
    returned.op = "validate"
        => returned.result = ClaimedOutcome(returned.discount_id, returned.amount,
                                            returned.user_id, returned.now)

\* C23: on acceptance discount_amount is trip_amount * value / 100 for a
\* percentage code and value for a fixed code, capped by max_discount_amount
\* when set, final_amount is max(0, trip_amount - discount_amount), and so
\* 0 <= final_amount <= trip_amount.
C23_DiscountAmounts ==
    (returned.op = "validate" /\ returned.result = "valid")
        => LET d == discount_codes[returned.discount_id]
               raw == IF d.discount_type \in {"percentage", "percent"}
                      THEN (returned.amount * d.discount_value) \div 100
                      ELSE d.discount_value
               capped == IF d.max_discount_amount # None
                         THEN Min(raw, d.max_discount_amount) ELSE raw
           IN /\ returned.discount_amount = capped
              /\ returned.final_amount = Max(0, returned.amount - capped)
              /\ 0 <= returned.final_amount
              /\ returned.final_amount <= returned.amount

\* C25: a validate call never mutates state: the discount_codes table with
\* its usage_count, the trips table and every wallet are the same after the
\* call as before it, whether it accepts or rejects.
C25_ValidateIsReadOnly ==
    [][(\/ returned'.op = "validate"
        \/ \E p \in Procs : pc[p] = "idle" /\ pc'[p] = "increment_usage")
          => /\ discount_codes' = discount_codes
             /\ trips' = trips
             /\ wallet_balance' = wallet_balance]_vars

C25_Witness ==
    /\ returned.op = "validate"
    /\ returned.result = "valid"
    /\ trips # << >>
    /\ \E c \in DOMAIN discount_codes : discount_codes[c].usage_count > 0

\* C26: in every committed state a completed payment attached to a trip by
\* process_trip_payment is referenced by the committed debit of the trip's
\* passenger and, when the trip has a driver, by the committed credit of
\* that driver.
C26_CompletedAfterTransfers ==
    \A t \in TripIds :
        (/\ trips[t].payment_id # NULL
         /\ payments[trips[t].payment_id].status = "completed")
            => /\ \E i \in RowsOfPayment(trips[t].payment_id) :
                     /\ transactions[i].user_id = trips[t].passenger_id
                     /\ transactions[i].amount < 0
               /\ trips[t].driver_id # NULL
                     => \E i \in RowsOfPayment(trips[t].payment_id) :
                           /\ transactions[i].user_id = trips[t].driver_id
                           /\ transactions[i].amount > 0

\* C27: the available_drivers of an estimate is the number of approved
\* drivers who are the driver of no trip whose status is pending,
\* in_progress or waiting; a driver on an in_progress trip is not counted.
C27_AvailableDriversExcludeBusy ==
    returned.op = "estimate"
        => returned.available_drivers =
              Cardinality({d \in Drivers :
                  /\ approval_status[d] = "approved"
                  /\ ~ \E t \in TripIds :
                        /\ trips[t].driver_id = d
                        /\ trips[t].trip_status \in
                               {"pending", "in_progress", "waiting"}})

\* C30 as stated: the duration of an estimate is round(distance_km * 2).
C30_DurationIsRounded ==
    returned.op = "estimate"
        => returned.duration = EstimatedDuration_Round(returned.distance)

\* C30: the duration of an estimate is distance_km * 2 truncated to whole
\* minutes: the largest integer not above twice the distance.
C30_DurationIsTruncated ==
    returned.op = "estimate"
        => /\ 100 * returned.duration <= 2 * returned.distance
           /\ 2 * returned.distance < 100 * (returned.duration + 1)

\* an estimate over 0.75 km has returned one minute
C30_Witness ==
    /\ returned.op = "estimate"
    /\ returned.distance = 75
    /\ returned.duration = 1

\* C29: committed transaction rows are write-once: every step keeps each
\* committed row, with its user, amount, type and payment reference, at its
\* place, and the table only grows.
C29_TransactionsWriteOnce ==
    [][/\ Len(transactions') >= Len(transactions)
       /\ \A i \in 1 .. Len(transactions) : transactions'[i] = transactions[i]]_vars

\* a posted row, a top-up row and the two rows of a settlement are committed
C29_Witness ==
    /\ Len(transactions) >= 4
    /\ \E i \in 1 .. Len(transactions) :
          /\ transactions[i].type = "trip_payment"
          /\ transactions[i].payment_id # NULL
          /\ transactions[i].amount < 0
    /\ \E i \in 1 .. Len(transactions) :
          /\ transactions[i].type = "trip_payment"
          /\ transactions[i].payment_id # NULL
          /\ transactions[i].amount > 0
    /\ \E i \in 1 .. Len(transactions) :
          transactions[i].type = "deposit" /\ transactions[i].payment_id # NULL
    /\ \E i \in 1 .. Len(transactions) : transactions[i].payment_id = NULL

\* C28: the reads of the core operations ignore soft-deleted rows: a post
\* on a soft-deleted user ends with NotFound, as balance_of does, and never
\* goes on to its write, and a create for a soft-deleted passenger ends
\* with NotFound.
C28_ReadsIgnoreDeleted ==
    [][/\ \A p \in Procs :
             (pc[p] = "idle" /\ pc'[p] = "post_write")
                 => ~deleted_at[req'[p].user_id]
       /\ (returned'.op = "post" /\ returned'.result # "ok"
               /\ deleted_at[returned'.user_id])
             => returned'.result = "404"
       /\ (returned'.op = "balance_of" /\ deleted_at[returned'.user_id])
             => returned'.result = "None"
       /\ (returned'.op = "create" /\ returned'.user_id \in Users
               /\ deleted_at[returned'.user_id])
             => returned'.result = "404"]_vars

\* C31: of two complete calls, or a complete and a cancel call, made by the
\* assigned driver on one in_progress trip, whichever is applied first
\* succeeds and writes its target status, and the one applied second finds
\* the status changed, returns None and leaves the trip as the first left
\* it: a complete or cancel call succeeds exactly when the trip still has
\* the prior status at the moment its conditional write is applied.
C31_OneTransitionWins ==
    [][returned'.op \in {"complete", "cancel"} =>
          LET t == returned'.trip_id
              d == returned'.driver_id
              prior == IF returned'.op = "complete" THEN {"in_progress"}
                       ELSE {"accepted", "in_progress"}
              target == IF returned'.op = "complete" THEN "completed"
                        ELSE "cancelled"
          IN IF t \in TripIds /\ trips[t].driver_id = d
                              /\ trips[t].trip_status \in prior
             THEN /\ returned'.result = "ok"
                  /\ trips'[t].trip_status = target
                  /\ target \notin prior
             ELSE /\ returned'.result = "None"
                  /\ trips' = trips]_vars

\* the assigned driver's complete has just failed on a trip that the same
\* driver's cancel had already moved out of in_progress
C31_Witness ==
    /\ returned.op = "complete"
    /\ returned.result = "None"
    /\ returned.trip_id \in TripIds
    /\ trips[returned.trip_id].driver_id = returned.driver_id
    /\ trips[returned.trip_id].trip_status = "cancelled"
    /\ trips[returned.trip_id].start_time # NULL

\* C32: a complete or cancel call whose driver_id is not the driver of the
\* trip returns None and leaves the trip's status, driver_id, start_time and
\* end_time as they were, whatever the status of the trip.
C32_OtherDriverChangesNothing ==
    [][(/\ returned'.op \in {"complete", "cancel"}
        /\ returned'.trip_id \in TripIds
        /\ trips[returned'.trip_id].driver_id # returned'.driver_id)
          => LET t == returned'.trip_id
             IN /\ returned'.result = "None"
                /\ trips'[t].trip_status = trips[t].trip_status
                /\ trips'[t].driver_id = trips[t].driver_id
                /\ trips'[t].start_time = trips[t].start_time
                /\ trips'[t].end_time = trips[t].end_time]_vars

\* another driver's cancel has just failed on a trip that is in_progress
\* with its own driver
C32_Witness ==
    /\ returned.op = "cancel"
    /\ returned.result = "None"
    /\ returned.trip_id \in TripIds
    /\ trips[returned.trip_id].driver_id \in Drivers \ {returned.driver_id}
    /\ trips[returned.trip_id].trip_status = "in_progress"

\* C33: every status that accept, start, complete or cancel writes is a
\* member of the TripStatus enumeration, so in every reachable state the
\* status of each trip belongs to TripStatus.
C33_StatusInEnumeration ==
    \A t \in TripIds : trips[t].trip_status \in TripStatus

\* C34: when a call of the accept, start, complete or cancel endpoint has
\* changed the trip row, the endpoint answers 200 with the updated trip: an
\* error answer implies that the trip row was not changed.
C34_ErrorMeansUnchanged ==
    [][(returned'.op \in DriverOps /\ trips' # trips)
          => EndpointStatus(returned') = "200"]_vars

\* C35: in every reachable state a trip is pending if and only if its
\* driver_id is null: no pending trip has a driver and no trip has left
\* pending without one.
C35_PendingIffDriverless ==
    \A t \in TripIds :
        (trips[t].trip_status = "pending") <=> (trips[t].driver_id = NULL)

\* C36: in every reachable state the timestamps of a trip agree with its
\* status: start_time is null while the trip is pending or accepted and set
\* while it is in_progress or completed, and end_time is set if and only if
\* the trip is completed.
C36_TimestampsAgreeWithStatus ==
    \A t \in TripIds :
        /\ trips[t].trip_status \in {"pending", "accepted"}
              => trips[t].start_time = NULL
        /\ trips[t].trip_status \in {"in_progress", "completed"}
              => trips[t].start_time # NULL
        /\ (trips[t].end_time # NULL) <=> (trips[t].trip_status = "completed")

\* C37: the wallet_balance of every user is at least 0 in every reachable
\* state, whatever the type and the sign of the amounts posted.
C37_BalanceNeverNegative ==
    \A u \in Users : wallet_balance[u] >= 0

\* C38: settlement never creates money: in every reachable state the sum of
\* the wallet balances of all users is at most the sum of the amounts of the
\* committed deposit rows.
C38_NoMoneyCreated ==
    SumProcs(wallet_balance, Users)
        <= SumSeq([i \in 1 .. Len(transactions) |->
                      IF transactions[i].type = "deposit"
                      THEN transactions[i].amount ELSE 0],
                  Len(transactions))

\* C39: top_up_wallet is all-or-nothing: its write raises the user's balance
\* by exactly the amount; when it returns success, one deposit row of that
\* amount references the new payment and the payment is completed; when it
\* fails, its payment row is not left pending and no balance has changed.
C39_TopUpAllOrNothing ==
    [][/\ \A p \in Procs :
             (pc[p] = "top_up_write" /\ pc'[p] # "top_up_write")
                 => wallet_balance'[req[p].user_id]
                        = wallet_balance[req[p].user_id] + req[p].amount
       /\ (returned'.op = "top_up" /\ returned'.result = "ok")
             => /\ payments'[returned'.payment_id].status = "completed"
                /\ \E i \in 1 .. Len(transactions') :
                      /\ transactions'[i].payment_id = returned'.payment_id
                      /\ transactions'[i].type = "deposit"
                      /\ transactions'[i].user_id = returned'.user_id
                      /\ transactions'[i].amount = returned'.amount
                      /\ \A j \in 1 .. Len(transactions') :
                            transactions'[j].payment_id = returned'.payment_id
                                => j = i
       /\ (returned'.op = "top_up" /\ returned'.result # "ok")
             => /\ payments'[returned'.payment_id].status # "pending"
                /\ wallet_balance' = wallet_balance]_vars

====
